---- MODULE Spec2Model ----
(***************************************************************************)
(* Model of notebook-demos/reading-in-sentinel-data.ipynb: the code cells  *)
(* of the notebook run top to bottom ("Run All"), one statement at a time. *)
(* Strings are sequences of one-character strings so that slicing and      *)
(* int() are computed, None is the empty sequence <<>> and a present value *)
(* x is <<x>>.                                                             *)
(***************************************************************************)
EXTENDS Integers, Sequences, FiniteSets, TLC

VARIABLES pc, i, proc, fs, dl, err, log, arrs, f, data, extent,
          projected_extent, epsg_out, tile, rdd, raster_layer

vars == <<pc, i, proc, fs, dl, err, log, arrs, f, data, extent,
          projected_extent, epsg_out, tile, rdd, raster_layer>>

(* ---------------------------- bounds ----------------------------------- *)

\* Widest raster row the downloads can deliver (rasters are 1 x w).
MaxW == 2

\* Longest digit string after "epsg:" explored by SpecEpsg.
MaxDigits == 3

(* ------------------------ program constants ---------------------------- *)

\* jp2s = ["/tmp/B01.jp2", "/tmp/B09.jp2", "/tmp/B10.jp2"]; three curl lines.
NumFiles == 3

\* f.read(1): the band index read from every file.
ReadBand == 1

\* ['init'][5:]: the slice start that drops "epsg:".
EpsgPrefixLen == 5

jp2s == <<"/tmp/B01.jp2", "/tmp/B09.jp2", "/tmp/B10.jp2">>

None == <<>>

(* ------------------------ strings and int() ---------------------------- *)

Digits == <<"0", "1", "2", "3", "4", "5", "6", "7", "8", "9">>

DigitChars == {Digits[k] : k \in 1..10}

DigitVal(c) == (CHOOSE k \in 1..10 : Digits[k] = c) - 1

EpsgPrefix == <<"e", "p", "s", "g", ":">>

\* Python s[n:]
PySliceFrom(s, n) == SubSeq(s, n + 1, Len(s))

RECURSIVE Horner(_, _)
Horner(s, acc) ==
  IF s = <<>> THEN acc ELSE Horner(Tail(s), acc * 10 + DigitVal(Head(s)))

\* Python int(s) on the characters that occur here: a non-empty run of
\* decimal digits parses to its value, anything else raises ValueError.
PyInt(s) ==
  IF s # <<>> /\ \A k \in 1..Len(s) : s[k] \in DigitChars
  THEN [ok |-> TRUE, val |-> Horner(s, 0)]
  ELSE [ok |-> FALSE, exc |-> "ValueError"]

\* crs is the dict f.crs.to_dict(): a function from keys to strings.
EpsgOf_Slice6(crs) ==
  IF "init" \in DOMAIN crs
  THEN PyInt(PySliceFrom(crs["init"], 6))
  ELSE [ok |-> FALSE, exc |-> "KeyError"]

\* int(f.crs.to_dict()['init'][5:])
EpsgOf(crs) ==
  IF "init" \in DOMAIN crs
  THEN PyInt(PySliceFrom(crs["init"], EpsgPrefixLen))
  ELSE [ok |-> FALSE, exc |-> "KeyError"]

(* --------------------- files, rasters and arrays ----------------------- *)

Files == 1..NumFiles

\* numpy dtypes, by bit width: uint8 and uint16 (Sentinel-2 L1C is uint16).
Dtypes == {8, 16}

Pow2(w) == IF w = 8 THEN 256 ELSE 65536

Bases(d) == IF d = 8 THEN {200} ELSE {200, 255, 300}

Ramp(base, w) == [c \in 1..w |-> base + c - 1]

\* A 2-D array as f.read(1) returns it: one row of w cells.
Bands ==
  UNION { { [dtype |-> d, shape |-> <<1, w>>, px |-> <<Ramp(b, w)>>] :
              w \in 1..MaxW, b \in Bases(d) } : d \in Dtypes }

Str_epsg32632 == EpsgPrefix \o <<"3", "2", "6", "3", "2">>

Str_epsg4326 == EpsgPrefix \o <<"4", "3", "2", "6">>

\* Dataset metadata rasterio parses at open: bounds (left, bottom, right,
\* top), the CRS dict and the nodata value.
Metas ==
  { [bounds |-> <<499980, 4590240, 609780, 4700040>>,
     crs |-> [init |-> Str_epsg32632], nodata |-> None],
    [bounds |-> <<8, 41, 10, 43>>,
     crs |-> [init |-> Str_epsg4326], nodata |-> <<0>>],
    [bounds |-> <<8, 41, 10, 43>>,
     crs |-> [init |-> EpsgPrefix], nodata |-> None],
    [bounds |-> <<8, 41, 10, 43>>,
     crs |-> [proj |-> <<"u", "t", "m">>], nodata |-> None] }

\* What a path under /tmp can hold.
Absent == [kind |-> "absent"]

Garbage == [kind |-> "garbage"]

Truncated == [kind |-> "truncated"]

Jp2(b, m) == [kind |-> "jp2", bands |-> <<b>>, meta |-> m]

Rasters == { Jp2(b, m) : b \in Bands, m \in Metas }

\* A file an earlier run of the notebook left under /tmp.
Stale ==
  Jp2([dtype |-> 16, shape |-> <<1, 1>>, px |-> <<Ramp(200, 1)>>],
      [bounds |-> <<8, 41, 10, 43>>,
       crs |-> [init |-> Str_epsg4326], nodata |-> <<0>>])

\* numpy's cast of one cell to an unsigned dtype of the given width.
Cast(v, d) == v % Pow2(d)

CastRows(px, d) ==
  [r \in 1..Len(px) |-> [c \in 1..Len(px[r]) |-> Cast(px[r][c], d)]]

\* np.array(arrs, dtype=dt): arrays of one shape stack along a new first
\* axis, every cell cast to dt; arrays of different shapes raise ValueError.
NpArray(as, dt) ==
  IF \A k \in 1..Len(as) : as[k].shape = as[1].shape
  THEN [ok |-> TRUE,
        val |-> [dtype |-> dt,
                 shape |-> <<Len(as)>> \o as[1].shape,
                 px |-> [k \in 1..Len(as) |-> CastRows(as[k].px, dt)]]]
  ELSE [ok |-> FALSE, exc |-> "ValueError"]

\* gps.Extent(*f.bounds)
Extent(b) == [xmin |-> b[1], ymin |-> b[2], xmax |-> b[3], ymax |-> b[4]]

\* gps.ProjectedExtent(extent=..., epsg=...): a key without an instant.
ProjectedExtent(e, n) == [extent |-> e, epsg |-> n, proj4 |-> None]

\* gps.Tile.from_numpy_array(numpy_array=..., no_data_value=...)
Tile(a, nd) == [cells |-> a, no_data_value |-> nd]

(* --------------------------- control ----------------------------------- *)

\* A statement of the notebook: its label and, for the curl lines and the
\* loop body, the index of the file it works on (0 otherwise).
Stmt(l, k) == <<l, k>>

Running == err = None /\ pc # "done"

\* An uncaught exception ends the run where it is raised.
Raise(s, exc) == err' = <<[at |-> s, exc |-> exc]>>

Init ==
  /\ pc = "curl"
  /\ i = 1
  /\ proc = 0
  /\ fs \in [Files -> {Absent, Stale}]
  /\ dl = [k \in Files |-> "none"]
  /\ err = None
  /\ log = <<>>
  /\ arrs = None
  /\ f = None
  /\ data = None
  /\ extent = None
  /\ projected_extent = None
  /\ epsg_out = None
  /\ tile = None
  /\ rdd = None
  /\ raster_layer = None


(* ------------------------- the download cell --------------------------- *)

\* How one curl run can end, and what it leaves at its -o path. curl exits
\* non-zero when it cannot connect (the path is left as it was) or when the
\* transfer breaks off (a prefix of the file is left); without -f an HTTP
\* error page is written to the path and curl exits 0.
CurlOutcomes == {"ok", "no_connect", "partial", "http_error"}

CurlWrites(o, old) ==
  CASE o = "ok" -> Rasters
    [] o = "no_connect" -> {old}
    [] o = "partial" -> {Garbage, Truncated}
    [] o = "http_error" -> {Garbage}

DownloadFailed(k) == dl[k] \in {"no_connect", "partial", "http_error"}

\* "!curl ..." does not wait for the child and moves on.
CurlStart_Background(k) ==
  /\ Running /\ pc = "curl" /\ i = k /\ proc = 0
  /\ proc' = k
  /\ log' = Append(log, Stmt("curl", k))
  /\ IF k < NumFiles THEN i' = k + 1 /\ pc' = pc ELSE i' = 0 /\ pc' = "import"
  /\ UNCHANGED <<fs, dl, err, arrs, f, data, extent,
                 projected_extent, epsg_out, tile, rdd, raster_layer>>

\* "!curl -o /tmp/Bxx.jp2 URL": IPython starts the child process ...
CurlStart(k) ==
  /\ Running /\ pc = "curl" /\ i = k /\ proc = 0
  /\ proc' = k
  /\ log' = Append(log, Stmt("curl", k))
  /\ UNCHANGED <<pc, i, fs, dl, err, arrs, f, data, extent,
                 projected_extent, epsg_out, tile, rdd, raster_layer>>

\* A failed curl raises: the run ends at the download.
CurlExit_Raises(k) ==
  /\ proc = k
  /\ \E o \in CurlOutcomes : \E c \in CurlWrites(o, fs[k]) :
       /\ fs' = [fs EXCEPT ![k] = c]
       /\ dl' = [dl EXCEPT ![k] = o]
       /\ IF o = "ok"
          THEN /\ UNCHANGED err
               /\ IF k < NumFiles
                  THEN i' = k + 1 /\ pc' = pc
                  ELSE i' = 0 /\ pc' = "import"
          ELSE /\ Raise(Stmt("curl", k), "CalledProcessError")
               /\ UNCHANGED <<pc, i>>
  /\ proc' = 0
  /\ UNCHANGED <<log, arrs, f, data, extent, projected_extent, epsg_out,
                 tile, rdd, raster_layer>>

\* ... and waits for it to exit. The exit status is stored, nothing is
\* raised, and the next line runs whatever the status was.
CurlExit(k) ==
  /\ proc = k
  /\ \E o \in CurlOutcomes : \E c \in CurlWrites(o, fs[k]) :
       /\ fs' = [fs EXCEPT ![k] = c]
       /\ dl' = [dl EXCEPT ![k] = o]
  /\ proc' = 0
  /\ IF k < NumFiles THEN i' = k + 1 /\ pc' = pc ELSE i' = 0 /\ pc' = "import"
  /\ UNCHANGED <<err, log, arrs, f, data, extent, projected_extent,
                 epsg_out, tile, rdd, raster_layer>>

(* ---------------------- imports and SparkContext ----------------------- *)

Import ==
  /\ Running /\ pc = "import"
  /\ pc' = "conf"
  /\ log' = Append(log, Stmt("import", 0))
  /\ UNCHANGED <<i, proc, fs, dl, err, arrs, f, data, extent,
                 projected_extent, epsg_out, tile, rdd, raster_layer>>

Conf ==
  /\ Running /\ pc = "conf"
  /\ pc' = "jp2s"
  /\ log' = Append(log, Stmt("conf", 0))
  /\ UNCHANGED <<i, proc, fs, dl, err, arrs, f, data, extent,
                 projected_extent, epsg_out, tile, rdd, raster_layer>>

(* ---------------------- the decode and stack cell ---------------------- *)

\* jp2s = [...]; arrs = []; the for loop takes the first path.
Jp2sInit ==
  /\ Running /\ pc = "jp2s"
  /\ arrs' = <<>>
  /\ i' = 1
  /\ pc' = "open"
  /\ log' = Append(log, Stmt("jp2s", 0))
  /\ UNCHANGED <<proc, fs, dl, err, f, data, extent,
                 projected_extent, epsg_out, tile, rdd, raster_layer>>

\* with rasterio.open(jp2) as f: a missing file or one that is no JPEG 2000
\* raises RasterioIOError; otherwise f is bound to the open dataset.
Open ==
  /\ Running /\ pc = "open"
  /\ log' = Append(log, Stmt("open", i))
  /\ IF fs[i].kind \in {"absent", "garbage"}
     THEN /\ Raise(Stmt("open", i), "RasterioIOError")
          /\ UNCHANGED <<pc, f>>
     ELSE /\ f' = <<[path |-> i, closed |-> FALSE,
                     meta |-> IF fs[i].kind = "jp2" THEN <<fs[i].meta>>
                              ELSE None]>>
          /\ pc' = "read"
          /\ UNCHANGED err
  /\ UNCHANGED <<i, proc, fs, dl, arrs, data, extent, projected_extent,
                 epsg_out, tile, rdd, raster_layer>>

\* arrs.append(f.read(1)), then the with block closes f and the loop takes
\* the next path or ends. A codestream that breaks off raises in f.read.
Read ==
  /\ Running /\ pc = "read"
  /\ log' = Append(log, Stmt("read", i))
  /\ f' = <<[f[1] EXCEPT !.closed = TRUE]>>
  /\ IF fs[f[1].path].kind = "truncated"
     THEN /\ Raise(Stmt("read", i), "RasterioIOError")
          /\ UNCHANGED <<pc, i, arrs>>
     ELSE /\ arrs' = Append(arrs, fs[f[1].path].bands[ReadBand])
          /\ IF i < Len(jp2s)
             THEN i' = i + 1 /\ pc' = "open"
             ELSE i' = i /\ pc' = "stack"
          /\ UNCHANGED err
  /\ UNCHANGED <<proc, fs, dl, data, extent, projected_extent, epsg_out,
                 tile, rdd, raster_layer>>

\* np.array keeps each band's own cells (no cast).
Stack_NoCast ==
  /\ Running /\ pc = "stack"
  /\ log' = Append(log, Stmt("stack", 0))
  /\ IF \A k \in 1..Len(arrs) : arrs[k].shape = arrs[1].shape
     THEN /\ data' = <<[dtype |-> arrs[1].dtype,
                        shape |-> <<Len(arrs)>> \o arrs[1].shape,
                        px |-> [k \in 1..Len(arrs) |-> arrs[k].px]]>>
          /\ pc' = "extent"
          /\ UNCHANGED err
     ELSE /\ Raise(Stmt("stack", 0), "ValueError")
          /\ UNCHANGED <<pc, data>>
  /\ UNCHANGED <<i, proc, fs, dl, arrs, f, extent, projected_extent,
                 epsg_out, tile, rdd, raster_layer>>

\* data = np.array(arrs, dtype=arrs[0].dtype)
Stack ==
  /\ Running /\ pc = "stack"
  /\ log' = Append(log, Stmt("stack", 0))
  /\ LET r == NpArray(arrs, arrs[1].dtype) IN
       IF r.ok
       THEN /\ data' = <<r.val>>
            /\ pc' = "extent"
            /\ UNCHANGED err
       ELSE /\ Raise(Stmt("stack", 0), r.exc)
            /\ UNCHANGED <<pc, data>>
  /\ UNCHANGED <<i, proc, fs, dl, arrs, f, extent, projected_extent,
                 epsg_out, tile, rdd, raster_layer>>


(* ------------------------- the wrapping cells -------------------------- *)

\* After the loop f is the dataset of the last path, closed; bounds, crs
\* and nodata were read when it was opened and stay readable.
FMeta == f[1].meta[1]

\* extent = gps.Extent(*f.bounds)
ExtentCell ==
  /\ Running /\ pc = "extent"
  /\ log' = Append(log, Stmt("extent", 0))
  /\ extent' = <<Extent(FMeta.bounds)>>
  /\ pc' = "projected_extent"
  /\ UNCHANGED <<i, proc, fs, dl, err, arrs, f, data,
                 projected_extent, epsg_out, tile, rdd, raster_layer>>

\* The key is built with an instant (a TemporalProjectedExtent).
ProjectedExtentCell_Temporal ==
  /\ Running /\ pc = "projected_extent"
  /\ log' = Append(log, Stmt("projected_extent", 0))
  /\ LET r == EpsgOf(FMeta.crs) IN
       IF r.ok
       THEN /\ projected_extent' =
                 <<[extent |-> extent[1], instant |-> 0,
                    epsg |-> r.val, proj4 |-> None]>>
            /\ pc' = "show_crs"
            /\ UNCHANGED err
       ELSE /\ Raise(Stmt("projected_extent", 0), r.exc)
            /\ UNCHANGED <<pc, projected_extent>>
  /\ UNCHANGED <<i, proc, fs, dl, arrs, f, data, extent, epsg_out, tile,
                 rdd, raster_layer>>

\* projected_extent = gps.ProjectedExtent(extent=extent,
\*     epsg=int(f.crs.to_dict()['init'][5:]))
\* A dict without 'init' raises KeyError, a tail that is no number
\* ValueError.
ProjectedExtentCell ==
  /\ Running /\ pc = "projected_extent"
  /\ log' = Append(log, Stmt("projected_extent", 0))
  /\ LET r == EpsgOf(FMeta.crs) IN
       IF r.ok
       THEN /\ projected_extent' = <<ProjectedExtent(extent[1], r.val)>>
            /\ pc' = "show_crs"
            /\ UNCHANGED err
       ELSE /\ Raise(Stmt("projected_extent", 0), r.exc)
            /\ UNCHANGED <<pc, projected_extent>>
  /\ UNCHANGED <<i, proc, fs, dl, arrs, f, data, extent, epsg_out, tile,
                 rdd, raster_layer>>

\* f.crs.to_dict()  (displayed only)
CrsCell ==
  /\ Running /\ pc = "show_crs"
  /\ log' = Append(log, Stmt("show_crs", 0))
  /\ pc' = "show_epsg"
  /\ UNCHANGED <<i, proc, fs, dl, err, arrs, f, data, extent,
                 projected_extent, epsg_out, tile, rdd, raster_layer>>

\* int(f.crs.to_dict()['init'][5:])  (displayed)
EpsgCell ==
  /\ Running /\ pc = "show_epsg"
  /\ log' = Append(log, Stmt("show_epsg", 0))
  /\ LET r == EpsgOf(FMeta.crs) IN
       IF r.ok
       THEN /\ epsg_out' = <<r.val>>
            /\ pc' = "tile"
            /\ UNCHANGED err
       ELSE /\ Raise(Stmt("show_epsg", 0), r.exc)
            /\ UNCHANGED <<pc, epsg_out>>
  /\ UNCHANGED <<i, proc, fs, dl, arrs, f, data, extent, projected_extent,
                 tile, rdd, raster_layer>>

\* tile = gps.Tile.from_numpy_array(numpy_array=data, no_data_value=f.nodata)
TileCell ==
  /\ Running /\ pc = "tile"
  /\ log' = Append(log, Stmt("tile", 0))
  /\ tile' = <<Tile(data[1], FMeta.nodata)>>
  /\ pc' = "rdd"
  /\ UNCHANGED <<i, proc, fs, dl, err, arrs, f, data, extent,
                 projected_extent, epsg_out, rdd, raster_layer>>

(* --------------------- the RDD and the layer --------------------------- *)

\* The pair is put into the list twice.
RddCell_Twice ==
  /\ Running /\ pc = "rdd"
  /\ log' = Append(log, Stmt("rdd", 0))
  /\ rdd' = << << <<projected_extent[1], tile[1]>>,
                  <<projected_extent[1], tile[1]>> >> >>
  /\ pc' = "layer"
  /\ UNCHANGED <<i, proc, fs, dl, err, arrs, f, data, extent,
                 projected_extent, epsg_out, tile, raster_layer>>

\* rdd = pysc.parallelize([(projected_extent, tile)]): the records of the
\* RDD are the elements of the list.
RddCell ==
  /\ Running /\ pc = "rdd"
  /\ log' = Append(log, Stmt("rdd", 0))
  /\ rdd' = << << <<projected_extent[1], tile[1]>> >> >>
  /\ pc' = "layer"
  /\ UNCHANGED <<i, proc, fs, dl, err, arrs, f, data, extent,
                 projected_extent, epsg_out, tile, raster_layer>>

\* raster_layer = gps.RasterLayer.from_numpy_rdd(
\*     layer_type=gps.LayerType.SPATIAL, numpy_rdd=rdd)
RasterLayerCell ==
  /\ Running /\ pc = "layer"
  /\ log' = Append(log, Stmt("layer", 0))
  /\ raster_layer' = <<[layer_type |-> "SPATIAL", numpy_rdd |-> rdd[1]]>>
  /\ pc' = "done"
  /\ UNCHANGED <<i, proc, fs, dl, err, arrs, f, data, extent,
                 projected_extent, epsg_out, tile, rdd>>

Next ==
  \/ \E k \in Files : CurlStart(k)
  \/ \E k \in Files : CurlExit(k)
  \/ Import
  \/ Conf
  \/ Jp2sInit
  \/ Open
  \/ Read
  \/ Stack
  \/ ExtentCell
  \/ ProjectedExtentCell
  \/ CrsCell
  \/ EpsgCell
  \/ TileCell
  \/ RddCell
  \/ RasterLayerCell

Spec == Init /\ [][Next]_vars


(* -------------- the EPSG extraction on its own: SpecEpsg --------------- *)

\* The digit strings that can follow "epsg:" (the empty one included).
EpsgInputs == UNION { [1..n -> DigitChars] : n \in 0..MaxDigits }

\* The notebook's statements in the order the cells list them.
Order ==
  <<Stmt("curl", 1), Stmt("curl", 2), Stmt("curl", 3),
    Stmt("import", 0), Stmt("conf", 0), Stmt("jp2s", 0),
    Stmt("open", 1), Stmt("read", 1), Stmt("open", 2), Stmt("read", 2),
    Stmt("open", 3), Stmt("read", 3), Stmt("stack", 0),
    Stmt("extent", 0), Stmt("projected_extent", 0), Stmt("show_crs", 0),
    Stmt("show_epsg", 0), Stmt("tile", 0), Stmt("rdd", 0),
    Stmt("layer", 0)>>

\* The run just before the wrapping cells, after three downloads of a
\* raster whose CRS dict is {'init': 'epsg:' + ds}.
InitEpsg ==
  \E ds \in EpsgInputs :
    LET b == [dtype |-> 16, shape |-> <<1, 1>>, px |-> <<Ramp(200, 1)>>]
        m == [bounds |-> <<8, 41, 10, 43>>,
              crs |-> [init |-> EpsgPrefix \o ds], nodata |-> None]
    IN
      /\ pc = "extent"
      /\ i = NumFiles
      /\ proc = 0
      /\ fs = [k \in Files |-> Jp2(b, m)]
      /\ dl = [k \in Files |-> "ok"]
      /\ err = None
      /\ log = SubSeq(Order, 1, 13)
      /\ arrs = [k \in Files |-> b]
      /\ f = <<[path |-> NumFiles, closed |-> TRUE, meta |-> <<m>>]>>
      /\ data = <<NpArray([k \in Files |-> b], b.dtype).val>>
      /\ extent = None
      /\ projected_extent = None
      /\ epsg_out = None
      /\ tile = None
      /\ rdd = None
      /\ raster_layer = None

NextEpsg ==
  \/ ExtentCell
  \/ ProjectedExtentCell
  \/ CrsCell
  \/ EpsgCell

SpecEpsg == InitEpsg /\ [][NextEpsg]_vars

(* ------------------------------ claims --------------------------------- *)

Last(q) == q[Len(q)]

InLog(s) == \E n \in 1..Len(log) : log[n] = s

IsPrefix(p, q) == Len(p) <= Len(q) /\ \A n \in 1..Len(p) : p[n] = q[n]

\* The array band 1 of the file at jp2s[k] holds.
FileBand(k) == fs[k].bands[ReadBand]

\* C1: the statements run one after another in the order of the cells:
\* the statements begun so far are an initial piece of download, setup,
\* decode (open and read per file), stack, wrap, parallelize, layer, each
\* begun once; while a curl is in progress it is the statement begun last
\* and nothing else has started; a statement has begun only when the work
\* of the ones before it is finished.
C1_LinearOrder ==
  /\ IsPrefix(log, Order)
  /\ \A a, b \in 1..Len(log) : a # b => log[a] # log[b]
  /\ proc # 0 => pc = "curl" /\ i = proc /\ Last(log) = Stmt("curl", proc)
  /\ \A k \in Files : InLog(Stmt("open", k)) =>
       /\ \A j \in Files : dl[j] # "none"
       /\ Len(arrs) >= k - 1
  /\ InLog(Stmt("stack", 0)) => Len(arrs) = NumFiles
  /\ InLog(Stmt("extent", 0)) => data # None
  /\ InLog(Stmt("rdd", 0)) => projected_extent # None /\ tile # None
  /\ InLog(Stmt("layer", 0)) => rdd # None
  /\ pc = "done" => log = Order /\ raster_layer # None

C1_Witness == pc = "done" /\ log = Order /\ err = None

\* What makes a statement fail, read off the inputs.
OpenFails(k) == fs[k].kind \in {"absent", "garbage"}

ReadFails(k) == fs[k].kind = "truncated"

CrsMalformed(crs) ==
  \/ "init" \notin DOMAIN crs
  \/ Len(crs["init"]) <= Len(EpsgPrefix)
  \/ \E n \in (Len(EpsgPrefix) + 1)..Len(crs["init"]) :
       crs["init"][n] \notin DigitChars

ErrAt(s) == err # None /\ err[1].at = s /\ Last(log) = s

C3_BandsAreTheFileBands ==
  data # None =>
    /\ Len(data[1].px) = Len(jp2s)
    /\ \A k \in 1..Len(jp2s) : data[1].px[k] = FileBand(k).px

\* C3 amended: data has one band per entry of jp2s, in list order, of the
\* files' common shape; each cell of band k is the cell of band 1 of the
\* file at jp2s[k] cast to the dtype of the first file's band (reduced
\* modulo 2^bits), so band k equals the file's band whenever that band's
\* values fit the first band's dtype, as they do when the dtypes agree.
C3_BandsAreTheFileBandsCast ==
  data # None =>
    LET d == data[1] IN
      /\ Len(d.px) = Len(jp2s)
      /\ d.dtype = FileBand(1).dtype
      /\ \A k \in 1..Len(jp2s) :
           /\ d.shape = <<Len(jp2s)>> \o FileBand(k).shape
           /\ Len(d.px[k]) = Len(FileBand(k).px)
           /\ \A r \in 1..Len(d.px[k]) :
                /\ Len(d.px[k][r]) = Len(FileBand(k).px[r])
                /\ \A c \in 1..Len(d.px[k][r]) :
                     d.px[k][r][c] = FileBand(k).px[r][c] % Pow2(d.dtype)
           /\ ( \A r \in 1..Len(FileBand(k).px) :
                  \A c \in 1..Len(FileBand(k).px[r]) :
                    FileBand(k).px[r][c] < Pow2(d.dtype) )
              => d.px[k] = FileBand(k).px

C3_Witness ==
  /\ data # None
  /\ FileBand(1).px # FileBand(2).px
  /\ FileBand(2).px # FileBand(3).px
  /\ FileBand(1).px # FileBand(3).px
  /\ FileBand(1).dtype = 16
  /\ FileBand(2).dtype = 8
  /\ Len(FileBand(1).px[1]) > 1

RECURSIVE Pow10(_)
Pow10(n) == IF n = 0 THEN 1 ELSE 10 * Pow10(n - 1)

RECURSIVE PlaceSum(_, _)
PlaceSum(ds, n) ==
  IF n = 0 THEN 0
  ELSE DigitVal(ds[n]) * Pow10(Len(ds) - n) + PlaceSum(ds, n - 1)

\* The integer a digit string denotes, by place value.
Denotes(ds) == PlaceSum(ds, Len(ds))

\* The metadata of the file at the last path of jp2s.
LastMeta == fs[Len(jp2s)].meta

\* C4: the RDD holds exactly one pair; its key is the ProjectedExtent of
\* the bounds and the EPSG code of the raster last opened, its value the
\* Tile of the stacked array data and that raster's nodata value; the
\* layer is built from that RDD.
C4_OnePairInRdd ==
  /\ rdd # None =>
       /\ Len(rdd[1]) = 1
       /\ rdd[1][1][1] =
            [extent |-> [xmin |-> LastMeta.bounds[1],
                         ymin |-> LastMeta.bounds[2],
                         xmax |-> LastMeta.bounds[3],
                         ymax |-> LastMeta.bounds[4]],
             epsg |-> Denotes(PySliceFrom(LastMeta.crs["init"],
                                          Len(EpsgPrefix))),
             proj4 |-> None]
       /\ rdd[1][1][2] = [cells |-> data[1],
                          no_data_value |-> LastMeta.nodata]
       /\ Len(data[1].px) = Len(jp2s)
  /\ raster_layer # None => raster_layer[1].numpy_rdd = rdd[1]

C4_Witness ==
  /\ raster_layer # None
  /\ fs[1].meta # LastMeta
  /\ fs[2].meta # LastMeta
  /\ LastMeta.nodata # None

\* C5: when the 'init' entry of the CRS dict is "epsg:" followed by one or
\* more decimal digits, the extraction raises nothing and the epsg given
\* to ProjectedExtent, and the value the EPSG cell shows, is the integer
\* those digits denote.
C5_EpsgIsTheDigitsValue ==
  LET crs == LastMeta.crs IN
    ( /\ "init" \in DOMAIN crs
      /\ \E ds \in EpsgInputs : ds # <<>> /\ crs["init"] = EpsgPrefix \o ds )
    =>
      LET ds == SubSeq(crs["init"], Len(EpsgPrefix) + 1, Len(crs["init"]))
      IN
        /\ err = None
        /\ InLog(Stmt("projected_extent", 0)) =>
             /\ projected_extent # None
             /\ projected_extent[1].epsg = Denotes(ds)
        /\ InLog(Stmt("show_epsg", 0)) =>
             epsg_out = <<Denotes(ds)>>

C5_Witness ==
  /\ epsg_out # None
  /\ projected_extent # None
  /\ Len(LastMeta.crs["init"]) = Len(EpsgPrefix) + MaxDigits
  /\ LastMeta.crs["init"][Len(EpsgPrefix) + 1] = "0"
  /\ projected_extent[1].epsg > 9

\* The layer type from_numpy_rdd needs for a key: keys with an instant
\* make a SPACETIME layer, keys without one a SPATIAL layer.
LayerTypeOfKey(key) ==
  IF "instant" \in DOMAIN key THEN "SPACETIME" ELSE "SPATIAL"

\* C6: the layer is built with layer type SPATIAL, and the one record of
\* its RDD has a key without a time component, so the layer type is the
\* one the key calls for.
C6_LayerTypeMatchesKey ==
  raster_layer # None =>
    /\ raster_layer[1].layer_type = "SPATIAL"
    /\ Len(raster_layer[1].numpy_rdd) = 1
    /\ \A n \in 1..Len(raster_layer[1].numpy_rdd) :
         /\ "instant" \notin DOMAIN raster_layer[1].numpy_rdd[n][1]
         /\ LayerTypeOfKey(raster_layer[1].numpy_rdd[n][1])
              = raster_layer[1].layer_type

C6_Witness ==
  /\ pc = "done"
  /\ raster_layer # None
  /\ raster_layer[1].numpy_rdd[1][1].epsg = 32632


====
